---- MODULE Spec2Model ----
(***************************************************************************)
(* GradientViz (stream_web.py): a Streamlit script that is re-executed     *)
(* from top to bottom whenever one of its four sidebar widgets changes.    *)
(*                                                                         *)
(* Numbers.  The script computes in floating point.  The model computes    *)
(* in exact fixed point over the integers:                                 *)
(*   - a coordinate c (px, py, a grid coordinate, a tangent abscissa) is   *)
(*     the integer c * Den, Den = 100 * (Num - 1), so that the linspace    *)
(*     points -5 + 10 j / 49, the slider positions k / 10 and the arrow    *)
(*     scales k / 20 are all integers;                                     *)
(*   - a gradient component g is the integer g * Den;                      *)
(*   - a function value v (Z, pz, a slice sample, a tangent ordinate) is   *)
(*     the integer v * Den * Den.                                          *)
(* With these units the polynomial surfaces and every tangent segment are  *)
(* computed without any rounding.  np.sin, np.cos and np.exp are computed  *)
(* to within two units of 1 / Fix by the series below.  The rounding of    *)
(* IEEE-754 doubles is not part of the model.                              *)
(***************************************************************************)
EXTENDS Integers, Sequences, FiniteSets, TLC

\* np.linspace(-5, 5, 50): the number of samples per axis.
Num == 50
\* Units per 1.0 of a coordinate and of a gradient component.
Den == 100 * (Num - 1)
\* Units per 1.0 of a function value.
Val == Den * Den
\* Units per 1.0 inside the series for sin, cos and exp.
Fix == 5 * Den

\* The options of the selectbox (the superscripts of the labels in ASCII).
Paraboloid == "Paraboloid (x^2 + y^2)"
Saddle == "Saddle (x^2 - y^2)"
Wave == "Wave Surface"
Gaussian == "Gaussian"
Options == <<Paraboloid, Saddle, Wave, Gaussian>>

\* a / b rounded to the nearest integer, for b > 0.
RDiv(a, b) == (a + b \div 2) \div b

Abs(a) == IF a < 0 THEN -a ELSE a

----------------------------------------------------------------------------
\* np.sin, np.cos, np.exp.  Arguments and results in units of 1 / Fix.

\* pi, from 355 / 113.
Pi == (355 * Fix) \div 113

\* One step of a series in Horner form: 1 - (r2 / k) * u.
Horner(u, r2, k) == Fix - RDiv(r2 * u, k * Fix)

\* sin(r) for |r| <= pi / 2.
SinR(r) ==
  LET r2 == RDiv(r * r, Fix)
      u == Horner(Horner(Horner(Horner(Horner(Fix, r2, 110), r2, 72),
                                r2, 42), r2, 20), r2, 6)
  IN RDiv(r * u, Fix)

\* cos(r) for |r| <= pi / 2.
CosR(r) ==
  LET r2 == RDiv(r * r, Fix)
  IN Horner(Horner(Horner(Horner(Horner(Fix, r2, 90), r2, 56),
                          r2, 30), r2, 12), r2, 2)

\* sin(a) = (-1)^k sin(a - k pi), k the multiple of pi nearest to a.
Sin(a) ==
  LET k == RDiv(a, Pi)
      s == SinR(a - k * Pi)
  IN IF k % 2 = 0 THEN s ELSE -s

Cos(a) ==
  LET k == RDiv(a, Pi)
      c == CosR(a - k * Pi)
  IN IF k % 2 = 0 THEN c ELSE -c

\* exp(-r) for 0 <= r <= 1: 1 - r (1 - r/2 (1 - r/3 ( ... ))), k-th factor on.
RECURSIVE ExpFrac(_, _)
ExpFrac(r, k) ==
  IF k > 12 THEN Fix ELSE Fix - RDiv(r * ExpFrac(r, k + 1), k * Fix)

\* exp(-n) for a natural number n.
RECURSIVE ExpInt(_)
ExpInt(n) ==
  IF n = 0 THEN Fix ELSE RDiv(ExpInt(n - 1) * ExpFrac(Fix, 1), Fix)

\* exp(-t) for t >= 0.
ExpNeg(t) == RDiv(ExpInt(t \div Fix) * ExpFrac(t % Fix, 1), Fix)

----------------------------------------------------------------------------
\* Function definitions: the if / elif / else on func_type.

\* Faulty variant of f: the saddle branch is a copy of the paraboloid's.
fSaddleCopied(sel, x, y) ==
  IF sel = Paraboloid THEN x * x + y * y
  ELSE IF sel = Saddle THEN x * x + y * y
  ELSE IF sel = Wave
    THEN (Sin(x * (Fix \div Den)) + Cos(y * (Fix \div Den))) * (Val \div Fix)
  ELSE ExpNeg(RDiv(x * x + y * y, 4 * (Val \div Fix))) * (Val \div Fix)

\* Faulty variant of f: the last two branches are exchanged, so that the
\* else branch holds the wave.
fElseWave(sel, x, y) ==
  IF sel = Paraboloid THEN x * x + y * y
  ELSE IF sel = Saddle THEN x * x - y * y
  ELSE IF sel = Gaussian
    THEN ExpNeg(RDiv(x * x + y * y, 4 * (Val \div Fix))) * (Val \div Fix)
  ELSE (Sin(x * (Fix \div Den)) + Cos(y * (Fix \div Den))) * (Val \div Fix)

\* f as defined after the selection sel, at the coordinates (x, y).
f(sel, x, y) ==
  IF sel = Paraboloid THEN x * x + y * y
  ELSE IF sel = Saddle THEN x * x - y * y
  ELSE IF sel = Wave
    THEN (Sin(x * (Fix \div Den)) + Cos(y * (Fix \div Den))) * (Val \div Fix)
  ELSE ExpNeg(RDiv(x * x + y * y, 4 * (Val \div Fix))) * (Val \div Fix)

\* Faulty variant of grad: the saddle branch is a copy of the paraboloid's.
gradSaddleCopied(sel, x, y) ==
  IF sel = Paraboloid THEN <<2 * x, 2 * y>>
  ELSE IF sel = Saddle THEN <<2 * x, 2 * y>>
  ELSE IF sel = Wave
    THEN <<RDiv(Cos(x * (Fix \div Den)), Fix \div Den),
           -RDiv(Sin(y * (Fix \div Den)), Fix \div Den)>>
  ELSE LET e == ExpNeg(RDiv(x * x + y * y, 4 * (Val \div Fix)))
       IN <<-RDiv(x * e, 2 * Fix), -RDiv(y * e, 2 * Fix)>>

\* Faulty variant of grad: the wave's second component has lost its sign.
gradWaveSign(sel, x, y) ==
  IF sel = Paraboloid THEN <<2 * x, 2 * y>>
  ELSE IF sel = Saddle THEN <<2 * x, -2 * y>>
  ELSE IF sel = Wave
    THEN <<RDiv(Cos(x * (Fix \div Den)), Fix \div Den),
           RDiv(Sin(y * (Fix \div Den)), Fix \div Den)>>
  ELSE LET e == ExpNeg(RDiv(x * x + y * y, 4 * (Val \div Fix)))
       IN <<-RDiv(x * e, 2 * Fix), -RDiv(y * e, 2 * Fix)>>

\* grad as defined after the selection sel, at the coordinates (x, y).
grad(sel, x, y) ==
  IF sel = Paraboloid THEN <<2 * x, 2 * y>>
  ELSE IF sel = Saddle THEN <<2 * x, -2 * y>>
  ELSE IF sel = Wave
    THEN <<RDiv(Cos(x * (Fix \div Den)), Fix \div Den),
           -RDiv(Sin(y * (Fix \div Den)), Fix \div Den)>>
  ELSE LET e == ExpNeg(RDiv(x * x + y * y, 4 * (Val \div Fix)))
       IN <<-RDiv(x * e, 2 * Fix), -RDiv(y * e, 2 * Fix)>>

----------------------------------------------------------------------------
\* Sidebar controls.

\* st.slider(label, -4.0, 4.0, 1.5, step=0.1), for px and for py.
SliderStep == Den \div 10
SliderMin == -4 * Den
SliderMax == 4 * Den
SliderDefault == (3 * Den) \div 2
SliderValues ==
  {k * SliderStep : k \in (SliderMin \div SliderStep)..(SliderMax \div SliderStep)}

\* st.slider("Gradient Arrow Scale", 0.1, 1.0, 0.4, step=0.05).
ScaleStep == Den \div 20
ScaleMin == Den \div 10
ScaleMax == Den
ScaleDefault == (2 * Den) \div 5
ScaleValues ==
  {k * ScaleStep : k \in (ScaleMin \div ScaleStep)..(ScaleMax \div ScaleStep)}

\* The positions of a slider at most rad steps away from its default.
Near(values, default, rad, step) ==
  {v \in values : Abs(v - default) <= rad * step}

\* How far from its default a run of the model moves a point slider, and the
\* arrow slider.
PtRadius == 2
ScaleRadius == 1

Points == Near(SliderValues, SliderDefault, PtRadius, SliderStep)
Scales == Near(ScaleValues, ScaleDefault, ScaleRadius, ScaleStep)

----------------------------------------------------------------------------
\* Grid data.

\* Faulty variant of linspace: the spacing of endpoint=False,
\* (stop - start) / num.
linspaceNoEndpoint(start, stop, num) ==
  [j \in 1..num |-> (start * num + (j - 1) * (stop - start)) * (Den \div num)]

\* np.linspace(start, stop, num): start + j * (stop - start) / (num - 1) for
\* j = 0 .. num - 1, in units of 1 / Den; start and stop are integers.
linspace(start, stop, num) ==
  [j \in 1..num |-> (start * (num - 1) + (j - 1) * (stop - start)) * (Den \div (num - 1))]

\* np.meshgrid(a, b): the pair of len(b) x len(a) arrays of the coordinates.
meshgrid(a, b) ==
  <<[i \in DOMAIN b |-> [j \in DOMAIN a |-> a[j]]],
    [i \in DOMAIN b |-> [j \in DOMAIN a |-> b[i]]]>>

x == linspace(-5, 5, Num)
y == linspace(-5, 5, Num)
X == meshgrid(x, y)[1]
Y == meshgrid(x, y)[2]

\* An identifier that is none of the options.
Unlisted == "Unlisted"
Identifiers == {Options[n] : n \in DOMAIN Options} \cup {Unlisted}

\* Z = f(X, Y), elementwise, under the selection sel.
Surface(sel) ==
  [i \in DOMAIN X |-> [j \in DOMAIN X[i] |-> f(sel, X[i][j], Y[i][j])]]

\* Surface, evaluated once for each identifier.
fXY == [sel \in Identifiers |-> Surface(sel)]

----------------------------------------------------------------------------
\* Slices and tangent lines.

\* Faulty variant of SliceX: the arguments of f exchanged.
SliceXSwapped(sel, q) == [j \in DOMAIN x |-> f(sel, q, x[j])]

\* z_x = f(x, py): the X-direction slice at the fixed ordinate q.
SliceX(sel, q) == [j \in DOMAIN x |-> f(sel, x[j], q)]

\* z_y = f(px, y): the Y-direction slice at the fixed abscissa p.
SliceY(sel, p) == [i \in DOMAIN y |-> f(sel, p, y[i])]

\* SliceX and SliceY, evaluated once for each identifier and slider position.
fXq == [sel \in Identifiers |-> [q \in SliderValues |-> SliceX(sel, q)]]
fpY == [sel \in Identifiers |-> [p \in SliderValues |-> SliceY(sel, p)]]

\* The 1.5 of np.array([px - 1.5, px + 1.5]).
HalfWidth == (3 * Den) \div 2

\* t_x = np.array([px - 1.5, px + 1.5]), and t_y likewise around py.
TangentAbscissae(p) == <<p - HalfWidth, p + HalfWidth>>

\* Faulty variant of TangentLine: the line is not anchored at p.
TangentLineUnanchored(v, g, t, p) == [n \in DOMAIN t |-> v + g * t[n]]

\* t_z = pz + grad_x * (t_x - px), and t_z_y likewise: the ordinates of the
\* line through (p, v) with slope g at the abscissae t.
TangentLine(v, g, t, p) == [n \in DOMAIN t |-> v + g * (t[n] - p)]

\* The head of the gradient arrow: (px + grad_x * arrow_scale,
\* py + grad_y * arrow_scale), in units of 1 / Val.
ArrowHead(p, q, gx, gy, s) == <<p * Den + gx * s, q * Den + gy * s>>

----------------------------------------------------------------------------
VARIABLES
  func_type,    \* the selectbox
  px, py,       \* the point sliders
  arrow_scale,  \* the arrow slider
  Z, grad_x, grad_y, pz, arrow, z_x, t_x, t_z, z_y, t_y, t_z_y,
                \* what the last execution of the script computed
  pc,           \* "ready": a session has its widget values and the script has
                \* not run yet; "done": the script has run to its end
  memo          \* history: <<>>, or one earlier execution, its widget values
                \* and what it computed

widgets == <<func_type, px, py, arrow_scale>>
\* What a run computes from the selection and the point alone.
derived == <<Z, grad_x, grad_y, pz, z_x, t_x, t_z, z_y, t_y, t_z_y>>
vars == <<widgets, derived, arrow, pc, memo>>

\* The script has not run: nothing is computed yet.
Blank ==
  /\ Z = <<>> /\ z_x = <<>> /\ z_y = <<>>
  /\ t_x = <<>> /\ t_z = <<>> /\ t_y = <<>> /\ t_z_y = <<>>
  /\ arrow = <<>>
  /\ grad_x = 0 /\ grad_y = 0 /\ pz = 0

\* Faulty variant of Script: every widget returns the value it had before the
\* change that caused this run.
ScriptStale ==
  /\ Z' = fXY[func_type]
  /\ grad_x' = grad(func_type, px, py)[1]
  /\ grad_y' = grad(func_type, px, py)[2]
  /\ pz' = f(func_type, px, py)
  /\ arrow' = ArrowHead(px, py, grad_x', grad_y', arrow_scale)
  /\ z_x' = fXq[func_type][py]
  /\ t_x' = TangentAbscissae(px)
  /\ t_z' = TangentLine(pz', grad_x', t_x', px)
  /\ z_y' = fpY[func_type][px]
  /\ t_y' = TangentAbscissae(py)
  /\ t_z_y' = TangentLine(pz', grad_y', t_y', py)
  /\ pc' = "done"

\* The script, top to bottom, with the values the widgets return in this run.
Script ==
  /\ Z' = fXY[func_type']
  /\ grad_x' = grad(func_type', px', py')[1]
  /\ grad_y' = grad(func_type', px', py')[2]
  /\ pz' = f(func_type', px', py')
  /\ arrow' = ArrowHead(px', py', grad_x', grad_y', arrow_scale')
  /\ z_x' = fXq[func_type'][py']
  /\ t_x' = TangentAbscissae(px')
  /\ t_z' = TangentLine(pz', grad_x', t_x', px')
  /\ z_y' = fpY[func_type'][px']
  /\ t_y' = TangentAbscissae(py')
  /\ t_z_y' = TangentLine(pz', grad_y', t_y', py')
  /\ pc' = "done"

\* The script executes with the widget values of the state: the first run
\* of a session.
Execute ==
  /\ pc = "ready"
  /\ UNCHANGED widgets
  /\ Script

\* The user picks another option of the selectbox; the script reruns.
SelectFunction(v) ==
  /\ pc = "done"
  /\ v # func_type
  /\ func_type' = v
  /\ UNCHANGED <<px, py, arrow_scale>>
  /\ Script

\* The user moves the X slider; the script reruns.
SlideX(v) ==
  /\ pc = "done"
  /\ v # px
  /\ px' = v
  /\ UNCHANGED <<func_type, py, arrow_scale>>
  /\ Script

\* The user moves the Y slider; the script reruns.
SlideY(v) ==
  /\ pc = "done"
  /\ v # py
  /\ py' = v
  /\ UNCHANGED <<func_type, px, arrow_scale>>
  /\ Script

\* The user moves the arrow slider; the script reruns.
SlideArrowScale(v) ==
  /\ pc = "done"
  /\ v # arrow_scale
  /\ arrow_scale' = v
  /\ UNCHANGED <<func_type, px, py>>
  /\ Script

\* History: the execution that ends in this step may be the one remembered.
Remember ==
  \/ memo' = memo
  \/ /\ memo = <<>>
     /\ memo' = <<[func_type |-> func_type', px |-> px', py |-> py',
                   arrow_scale |-> arrow_scale', derived |-> derived']>>

----------------------------------------------------------------------------
\* A session: it opens with every widget at its default, the script runs, and
\* reruns once per widget change.  The sliders stay within PtRadius and
\* ScaleRadius steps of their defaults.

Init ==
  /\ func_type = Options[1]
  /\ px = SliderDefault
  /\ py = SliderDefault
  /\ arrow_scale = ScaleDefault
  /\ Blank
  /\ pc = "ready"
  /\ memo = <<>>

Next ==
  \/ Execute /\ UNCHANGED memo
  \/ \E n \in DOMAIN Options : SelectFunction(Options[n]) /\ UNCHANGED memo
  \/ \E v \in Points : SlideX(v) /\ UNCHANGED memo
  \/ \E v \in Points : SlideY(v) /\ UNCHANGED memo
  \/ \E v \in Scales : SlideArrowScale(v) /\ UNCHANGED memo

Spec == Init /\ [][Next]_vars

\* The same session with a history of one execution, taken at any run.  The
\* sliders stay between their defaults and MemoRadius steps above them.
MemoRadius == 1
MemoPoints ==
  {v \in SliderValues : v - SliderDefault \in 0..(MemoRadius * SliderStep)}
MemoScales ==
  {v \in ScaleValues : v - ScaleDefault \in 0..(MemoRadius * ScaleStep)}

NextMemo ==
  \/ Execute /\ Remember
  \/ \E n \in DOMAIN Options : SelectFunction(Options[n]) /\ Remember
  \/ \E v \in MemoPoints : SlideX(v) /\ Remember
  \/ \E v \in MemoPoints : SlideY(v) /\ Remember
  \/ \E v \in MemoScales : SlideArrowScale(v) /\ Remember

SpecMemo == Init /\ [][NextMemo]_vars

\* One execution of the script for each selection and each position of the
\* point sliders, the arrow slider at its default.
InitRun ==
  /\ func_type \in {Options[n] : n \in DOMAIN Options}
  /\ px \in SliderValues
  /\ py \in SliderValues
  /\ arrow_scale = ScaleDefault
  /\ Blank
  /\ pc = "ready"
  /\ memo = <<>>

NextRun == Execute /\ UNCHANGED memo

SpecRun == InitRun /\ [][NextRun]_vars

\* One execution of the script for each identifier, an option of the
\* selectbox or not.
InitAny ==
  /\ func_type \in Identifiers
  /\ px \in Points
  /\ py \in Points
  /\ arrow_scale \in Scales
  /\ Blank
  /\ pc = "ready"
  /\ memo = <<>>

SpecAny == InitAny /\ [][NextRun]_vars

----------------------------------------------------------------------------
\* The registry as the specification tabulates it, in the units of the model.

\* The identifier the specification gives to an option of the selectbox.
IdOf(label) ==
  CASE label = Paraboloid -> "paraboloid"
    [] label = Saddle -> "saddle"
    [] label = Wave -> "wave"
    [] label = Gaussian -> "gaussian"

\* id -> f(a, b).
TableF(id, a, b) ==
  CASE id = "paraboloid" -> a * a + b * b
    [] id = "saddle" -> a * a - b * b
    [] id = "wave" ->
         (Sin(a * (Fix \div Den)) + Cos(b * (Fix \div Den))) * (Val \div Fix)
    [] id = "gaussian" ->
         ExpNeg(RDiv(a * a + b * b, 4 * (Val \div Fix))) * (Val \div Fix)

\* id -> grad(a, b).
TableGrad(id, a, b) ==
  CASE id = "paraboloid" -> <<2 * a, 2 * b>>
    [] id = "saddle" -> <<2 * a, -2 * b>>
    [] id = "wave" ->
         <<RDiv(Cos(a * (Fix \div Den)), Fix \div Den),
           -RDiv(Sin(b * (Fix \div Den)), Fix \div Den)>>
    [] id = "gaussian" ->
         LET e == ExpNeg(RDiv(a * a + b * b, 4 * (Val \div Fix)))
         IN <<-RDiv(a * e, 2 * Fix), -RDiv(b * e, 2 * Fix)>>

\* id -> the table's f over the grid.
TableSurface ==
  [id \in {"paraboloid", "saddle", "wave", "gaussian"} |->
     [i \in DOMAIN X |-> [j \in DOMAIN X[i] |-> TableF(id, X[i][j], Y[i][j])]]]

\* What a run shows is the table's pair for the identifier id.
ShowsPair(id) ==
  /\ pz = TableF(id, px, py)
  /\ <<grad_x, grad_y>> = TableGrad(id, px, py)
  /\ Z = TableSurface[id]
  /\ \A j \in DOMAIN x : z_x[j] = TableF(id, x[j], py)
  /\ \A i \in DOMAIN y : z_y[i] = TableF(id, px, y[i])

\* C1.  After any sequence of widget changes, every quantity of the run (pz,
\* the gradient, the grid Z, both slices) is computed with the table's f and
\* the table's grad of the one identifier that is selected now.
C1_SelectedPair == pc = "done" => ShowsPair(IdOf(func_type))

\* The saddle is selected (the default is the paraboloid) away from the axes,
\* where its pair differs from every other pair.
C1_Witness ==
  /\ pc = "done"
  /\ func_type = Saddle
  /\ py # 0
  /\ pz = px * px - py * py
  /\ grad_y = -2 * py

----------------------------------------------------------------------------
\* Finite differences.

\* The largest step of the central difference, in slider steps.
HMax == 3
Steps == {k * SliderStep : k \in 1..HMax}

\* f(p + h, q) - f(p - h, q) and f(p, q + h) - f(p, q - h).
DiffX(sel, p, q, h) == f(sel, p + h, q) - f(sel, p - h, q)
DiffY(sel, p, q, h) == f(sel, p, q + h) - f(sel, p, q - h)

\* The tolerance on DiffX - 2 h grad_x: the truncation error of the central
\* difference, 2 h * (h^2 / 6) * M with M = 1 a bound on the third partial
\* derivatives of the wave and of the gaussian, and the resolution of the
\* fixed point: two units of 1 / Fix on each of sin, cos and exp, two units
\* of 1 / Den on a gradient component.
Tolerance(h) == (((h * h) \div Den) * h) \div 3 + 8 * (Val \div Fix) + 4 * h

----------------------------------------------------------------------------
----------------------------------------------------------------------------
\* C4.  After any sequence of widget changes, what the last run left (grid,
\* pz, gradient, slices, tangent segments) is what the current selection and
\* the current point give; nothing of an earlier selection or point remains.
C4_NothingStale ==
  pc = "done" =>
    /\ Z = fXY[func_type]
    /\ <<grad_x, grad_y>> = grad(func_type, px, py)
    /\ pz = f(func_type, px, py)
    /\ z_x = SliceX(func_type, py)
    /\ z_y = SliceY(func_type, px)
    /\ t_x = TangentAbscissae(px)
    /\ t_y = TangentAbscissae(py)
    /\ t_z = TangentLine(f(func_type, px, py), grad(func_type, px, py)[1],
                         TangentAbscissae(px), px)
    /\ t_z_y = TangentLine(f(func_type, px, py), grad(func_type, px, py)[2],
                           TangentAbscissae(py), py)

\* Every widget has been changed at least once.
C4_Witness ==
  /\ pc = "done"
  /\ func_type = Gaussian
  /\ px # SliderDefault
  /\ py # SliderDefault
  /\ px # py
  /\ arrow_scale # ScaleDefault
  /\ pz = f(Gaussian, px, py)

----------------------------------------------------------------------------
\* C5.  A run with the selection and the point of a remembered earlier run
\* leaves the grid, pz, gradient, slices and tangent segments that the
\* remembered run left, whatever happened before either of them.
C5_Deterministic ==
  (/\ pc = "done"
   /\ memo # <<>>
   /\ memo[1].func_type = func_type
   /\ memo[1].px = px
   /\ memo[1].py = py)
  => memo[1].derived = derived

\* A later run (the arrow scale differs) with the selection and the point of
\* the remembered one, which was not the first run of the session.
C5_Witness ==
  /\ pc = "done"
  /\ memo # <<>>
  /\ memo[1].func_type = func_type
  /\ memo[1].px = px
  /\ memo[1].py = py
  /\ memo[1].arrow_scale # arrow_scale
  /\ func_type = Wave
  /\ px # SliderDefault
  /\ memo[1].derived = derived

----------------------------------------------------------------------------
\* The n-th of 50 coordinates from -5 to 5, spaced 10 / 49 apart.
Coordinate(n) == -5 * Den + (n - 1) * ((10 * Den) \div 49)

\* f under each selection at the coordinates (Coordinate(j), Coordinate(i)).
Sampled ==
  [sel \in {Options[n] : n \in DOMAIN Options} |->
     [i \in 1..50 |-> [j \in 1..50 |-> f(sel, Coordinate(j), Coordinate(i))]]]

\* C6.  X, Y and Z are 50 x 50; the coordinates of each axis are 50 values
\* from -5 to 5 spaced 10 / 49 apart; X[i][j] is the j-th x coordinate,
\* Y[i][j] the i-th y coordinate and Z[i][j] = f(X[i][j], Y[i][j]).
C6_Grid ==
  /\ DOMAIN x = 1..50 /\ DOMAIN y = 1..50
  /\ x[1] = -5 * Den /\ x[50] = 5 * Den
  /\ y[1] = -5 * Den /\ y[50] = 5 * Den
  /\ \A n \in 1..49 : 49 * (x[n + 1] - x[n]) = 10 * Den
  /\ \A n \in 1..49 : 49 * (y[n + 1] - y[n]) = 10 * Den
  /\ DOMAIN X = 1..50 /\ DOMAIN Y = 1..50
  /\ \A i \in 1..50 :
       /\ DOMAIN X[i] = 1..50 /\ DOMAIN Y[i] = 1..50
       /\ \A j \in 1..50 : X[i][j] = x[j] /\ Y[i][j] = y[i]
  /\ pc = "done" =>
       /\ DOMAIN Z = 1..50
       /\ \A i \in 1..50 : DOMAIN Z[i] = 1..50
       /\ Z = Sampled[func_type]

\* The grid of the wave, which is not symmetric in x and y.
C6_Witness ==
  /\ pc = "done"
  /\ func_type = Wave
  /\ Z[1][50] # Z[50][1]
  /\ Z[1][50] = f(Wave, 5 * Den, -5 * Den)

----------------------------------------------------------------------------
\* C7.  Paraboloid at (0, 0): pz = 0 and gradient (0, 0).  Saddle at (1, 1):
\* pz = 0 and gradient (2, -2).
C7_ReferenceValues ==
  /\ (pc = "done" /\ func_type = Paraboloid /\ px = 0 /\ py = 0)
       => (pz = 0 /\ grad_x = 0 /\ grad_y = 0)
  /\ (pc = "done" /\ func_type = Saddle /\ px = Den /\ py = Den)
       => (pz = 0 /\ grad_x = 2 * Den /\ grad_y = -2 * Den)

\* The run with the saddle selected and the point at (1, 1).
C7_Witness ==
  /\ pc = "done"
  /\ func_type = Saddle
  /\ px = Den /\ py = Den
  /\ pz = 0
  /\ <<grad_x, grad_y>> = <<2 * Den, -2 * Den>>

----------------------------------------------------------------------------
\* C8.  The X-slice has one sample per x coordinate, the j-th being
\* f(x_j, py); the Y-slice one per y coordinate, the i-th being f(px, y_i).
\* A rerun that changes neither the selection nor py (a change of px, or of
\* the arrow scale) leaves the X-slice as it was; one that changes neither
\* the selection nor px leaves the Y-slice as it was.
C8_Slices ==
  /\ [](pc = "done" =>
          /\ DOMAIN z_x = DOMAIN x
          /\ DOMAIN z_y = DOMAIN y
          /\ \A j \in DOMAIN x : z_x[j] = f(func_type, x[j], py)
          /\ \A i \in DOMAIN y : z_y[i] = f(func_type, px, y[i]))
  /\ [][(pc = "done" /\ func_type' = func_type /\ py' = py) => z_x' = z_x]_vars
  /\ [][(pc = "done" /\ func_type' = func_type /\ px' = px) => z_y' = z_y]_vars

\* The saddle with px moved and py where it was: the slices differ.
C8_Witness ==
  /\ pc = "done"
  /\ func_type = Saddle
  /\ px # SliderDefault
  /\ py = SliderDefault
  /\ z_x # z_y
  /\ z_x = SliceX(Saddle, SliderDefault)

----------------------------------------------------------------------------
\* C9.  The selection is total.  An identifier equal to one of the first
\* three labels selects that label's pair; any other identifier, the Gaussian
\* label or not an option at all, selects the gaussian pair; every run
\* computes with a defined f and grad.
C9_Total ==
  pc = "done" =>
    /\ pz \in Int /\ grad_x \in Int /\ grad_y \in Int
    /\ DOMAIN Z = DOMAIN X
    /\ ShowsPair(IF func_type = Options[1] THEN "paraboloid"
                 ELSE IF func_type = Options[2] THEN "saddle"
                 ELSE IF func_type = Options[3] THEN "wave"
                 ELSE "gaussian")

\* An identifier that is no option of the selectbox runs as the gaussian.
C9_Witness ==
  /\ pc = "done"
  /\ func_type \notin {Options[n] : n \in DOMAIN Options}
  /\ pz = TableF("gaussian", px, py)
  /\ pz > 0
  /\ pz # TableF("wave", px, py)

----------------------------------------------------------------------------
====
